---- MODULE Spec2Model ----
(***************************************************************************)
(* PostManager (src/managers/posts/post.manager.ts): 21 async methods,     *)
(* each of which hands one request (operation name, document, variables)   *)
(* to BaseManager.makeRequest, awaits the answer and returns one field of  *)
(* the decoded response envelope.                                          *)
(*                                                                         *)
(* JavaScript values are records tagged by `kind`:                         *)
(*   null, undefined, resource n, object {key: val}, argument values and   *)
(*   error values.  An object carries one modelled property; every other   *)
(*   property of it reads as undefined.                                    *)
(***************************************************************************)
EXTENDS Integers, Sequences, FiniteSets, TLC

VARIABLES manager, inv

vars == <<manager, inv>>

\* ---------------------------------------------------------------- bounds
MaxInflight == 2      \* invocation slots (concurrently running invocations)
NumIds == 2           \* distinct values per argument kind
NumResources == 2     \* distinct resources the server can return
NumErrors == 2        \* distinct errors the executor can raise

Slots == 1..MaxInflight

\* ---------------------------------------------------------------- values
Null == [kind |-> "null", n |-> 0]
Undefined == [kind |-> "undefined", n |-> 0]
NoVal == [kind |-> "none", n |-> 0]
Res(n) == [kind |-> "resource", n |-> n]
Obj(k, v) == [kind |-> "object", key |-> k, val |-> v]
Val(t, n) == [kind |-> t, n |-> n]
ExecutorError(n) == [kind |-> "error", name |-> "ExecutorError", n |-> n]
TypeError == [kind |-> "error", name |-> "TypeError", n |-> 0]

Resources == {Res(n) : n \in 1..NumResources}
Errors == {ExecutorError(n) : n \in 1..NumErrors}

\* ---------------------------------------------------------------- methods
Queries ==
  {"getPost", "getPostPublication", "getPostComments", "getPostCommenters",
   "getPostLikers", "getDraftPostQuery", "getScheduledPost", "getFeedPosts"}

Mutations ==
  {"publishPost", "addPostToSeries", "updatePost", "removePost", "likePost",
   "likeComment", "likeReply", "addComment", "updateComment", "removeComment",
   "addReply", "updateReply", "removeReply"}

Methods == Queries \cup Mutations

\* The document constants imported from ./post.queries.
ImportedDocuments ==
  {"ADD_COMMENT_MUTATION", "ADD_POST_TO_SERIES_MUTATION", "ADD_REPLY_MUTATION",
   "GET_DRAFT_POST_QUERY", "GET_FEED_POST", "GET_POST_COMMENTERS",
   "GET_POST_COMMENTS", "GET_POST_LIKERS", "GET_POST_PUBLICATION_QUERY",
   "GET_POST_QUERY", "GET_SCHEDULED_POST_QUERY", "LIKE_COMMENT_MUTATION",
   "LIKE_POST_MUTATION", "LIKE_REPLY_MUTATION", "PUBLISH_POST_MUTATION",
   "REMOVE_COMMENT_MUTATION", "REMOVE_POST_MUTATION", "REMOVE_REPLY_MUTATION",
   "UPDATE_COMMENT_MUTATION", "UPDATE_POST_MUTATION", "UPDATE_REPLY_MUTATION"}

\* The parameter list of each method, by the kind of value each takes.
Params(m) ==
  CASE m \in {"getPost", "getPostPublication"} -> <<"string">>
    [] m \in {"getPostComments", "getPostCommenters"} ->
         <<"string", "number", "cursor", "sortBy">>
    [] m = "getPostLikers" -> <<"string", "number", "cursor", "filter">>
    [] m \in {"getDraftPostQuery", "getScheduledPost"} -> <<"string">>
    [] m = "getFeedPosts" -> <<"number", "cursor", "filter">>
    [] OTHER -> <<"input">>

ArgKinds == {"string", "number", "cursor", "sortBy", "filter", "input"}
ArgValues == {Val(t, n) : t \in ArgKinds, n \in 1..NumIds}

\* Every argument tuple a caller can pass to method m.
ArgTuples(m) ==
  {a \in [1..Len(Params(m)) -> ArgValues] :
      \A j \in 1..Len(Params(m)) : a[j].kind = Params(m)[j]}

\* The argument tuple whose every value carries the index n.
DiagArgs(m, n) == [j \in 1..Len(Params(m)) |-> Val(Params(m)[j], n)]

\* The operation name each method passes to makeRequest.
OperationName(m) ==
  CASE m = "getPost" -> "getPost"
    [] m = "getPostPublication" -> "getPostPublication"
    [] m = "getPostComments" -> "getPostComments"
    [] m = "getPostCommenters" -> "getPostCommenters"
    [] m = "getPostLikers" -> "getPostLikers"
    [] m = "getDraftPostQuery" -> "getDraftPostQuery"
    [] m = "getScheduledPost" -> "getScheduledPost"
    [] m = "getFeedPosts" -> "getFeedPosts"
    [] m = "publishPost" -> "publishPost"
    [] m = "addPostToSeries" -> "addPostToSeries"
    [] m = "updatePost" -> "updatePost"
    [] m = "removePost" -> "removePost"
    [] m = "likePost" -> "likePost"
    [] m = "likeComment" -> "likeComment"
    [] m = "likeReply" -> "likeReply"
    [] m = "addComment" -> "addComment"
    [] m = "updateComment" -> "updateComment"
    [] m = "removeComment" -> "removeComment"
    [] m = "addReply" -> "addReply"
    [] m = "updateReply" -> "updateReply"
    [] m = "removeReply" -> "removeReply"

\* Document with a pasted constant: getScheduledPost sends the document of
\* getPost.
DocumentPasted(m) ==
  CASE m = "getPost" -> "GET_POST_QUERY"
    [] m = "getPostPublication" -> "GET_POST_PUBLICATION_QUERY"
    [] m = "getPostComments" -> "GET_POST_COMMENTS"
    [] m = "getPostCommenters" -> "GET_POST_COMMENTERS"
    [] m = "getPostLikers" -> "GET_POST_LIKERS"
    [] m = "getDraftPostQuery" -> "GET_DRAFT_POST_QUERY"
    [] m = "getScheduledPost" -> "GET_POST_QUERY"
    [] m = "getFeedPosts" -> "GET_FEED_POST"
    [] m = "publishPost" -> "PUBLISH_POST_MUTATION"
    [] m = "addPostToSeries" -> "ADD_POST_TO_SERIES_MUTATION"
    [] m = "updatePost" -> "UPDATE_POST_MUTATION"
    [] m = "removePost" -> "REMOVE_POST_MUTATION"
    [] m = "likePost" -> "LIKE_POST_MUTATION"
    [] m = "likeComment" -> "LIKE_COMMENT_MUTATION"
    [] m = "likeReply" -> "LIKE_REPLY_MUTATION"
    [] m = "addComment" -> "ADD_COMMENT_MUTATION"
    [] m = "updateComment" -> "UPDATE_COMMENT_MUTATION"
    [] m = "removeComment" -> "REMOVE_COMMENT_MUTATION"
    [] m = "addReply" -> "ADD_REPLY_MUTATION"
    [] m = "updateReply" -> "UPDATE_REPLY_MUTATION"
    [] m = "removeReply" -> "REMOVE_REPLY_MUTATION"

\* The document constant each method passes to makeRequest.
Document(m) ==
  CASE m = "getPost" -> "GET_POST_QUERY"
    [] m = "getPostPublication" -> "GET_POST_PUBLICATION_QUERY"
    [] m = "getPostComments" -> "GET_POST_COMMENTS"
    [] m = "getPostCommenters" -> "GET_POST_COMMENTERS"
    [] m = "getPostLikers" -> "GET_POST_LIKERS"
    [] m = "getDraftPostQuery" -> "GET_DRAFT_POST_QUERY"
    [] m = "getScheduledPost" -> "GET_SCHEDULED_POST_QUERY"
    [] m = "getFeedPosts" -> "GET_FEED_POST"
    [] m = "publishPost" -> "PUBLISH_POST_MUTATION"
    [] m = "addPostToSeries" -> "ADD_POST_TO_SERIES_MUTATION"
    [] m = "updatePost" -> "UPDATE_POST_MUTATION"
    [] m = "removePost" -> "REMOVE_POST_MUTATION"
    [] m = "likePost" -> "LIKE_POST_MUTATION"
    [] m = "likeComment" -> "LIKE_COMMENT_MUTATION"
    [] m = "likeReply" -> "LIKE_REPLY_MUTATION"
    [] m = "addComment" -> "ADD_COMMENT_MUTATION"
    [] m = "updateComment" -> "UPDATE_COMMENT_MUTATION"
    [] m = "removeComment" -> "REMOVE_COMMENT_MUTATION"
    [] m = "addReply" -> "ADD_REPLY_MUTATION"
    [] m = "updateReply" -> "UPDATE_REPLY_MUTATION"
    [] m = "removeReply" -> "REMOVE_REPLY_MUTATION"

\* Variables with the id queries passing their argument under the parameter's
\* own name (`{ draftID }`, `{ scheduledPostID }`) and the paginated queries
\* passing the cursor as `first` and the count as `after`.
VariablesRenamed(m, a) ==
  CASE m \in {"getPost", "getPostPublication"} -> {<<"postId", a[1]>>}
    [] m \in {"getPostComments", "getPostCommenters"} ->
         {<<"postId", a[1]>>, <<"first", a[3]>>, <<"after", a[2]>>,
          <<"sortBy", a[4]>>}
    [] m = "getPostLikers" ->
         {<<"postId", a[1]>>, <<"first", a[2]>>, <<"after", a[3]>>,
          <<"filter", a[4]>>}
    [] m = "getDraftPostQuery" -> {<<"draftID", a[1]>>}
    [] m = "getScheduledPost" -> {<<"scheduledPostID", a[1]>>}
    [] m = "getFeedPosts" ->
         {<<"first", a[1]>>, <<"after", a[2]>>, <<"filter", a[3]>>}
    [] OTHER -> {<<"input", a[1]>>}

\* The variables object each method builds from its arguments: a set of
\* <<key, value>> properties.
Variables(m, a) ==
  CASE m \in {"getPost", "getPostPublication"} -> {<<"postId", a[1]>>}
    [] m \in {"getPostComments", "getPostCommenters"} ->
         {<<"postId", a[1]>>, <<"first", a[2]>>, <<"after", a[3]>>,
          <<"sortBy", a[4]>>}
    [] m = "getPostLikers" ->
         {<<"postId", a[1]>>, <<"first", a[2]>>, <<"after", a[3]>>,
          <<"filter", a[4]>>}
    [] m \in {"getDraftPostQuery", "getScheduledPost"} -> {<<"id", a[1]>>}
    [] m = "getFeedPosts" ->
         {<<"first", a[1]>>, <<"after", a[2]>>, <<"filter", a[3]>>}
    [] OTHER -> {<<"input", a[1]>>}

\* The request an invocation of m with arguments a hands to makeRequest.
Request(m, a) ==
  [op |-> OperationName(m), doc |-> Document(m), vars |-> Variables(m, a)]

NoRequest == [op |-> "", doc |-> "", vars |-> {}]

\* ------------------------------------------------- JavaScript member access
Return(v) == [kind |-> "return", val |-> v]
Throw(e) == [kind |-> "throw", val |-> e]

IsNullish(v) == v.kind \in {"null", "undefined"}

\* o.k for a value o that is neither null nor undefined.
Prop(o, k) == IF o.kind = "object" /\ o.key = k THEN o.val ELSE Undefined

\* `return res.a`
Member1(res, a) ==
  IF IsNullish(res) THEN Throw(TypeError) ELSE Return(Prop(res, a))

\* `return res.a.b`
Member2(res, a, b) ==
  IF IsNullish(res) THEN Throw(TypeError)
  ELSE IF IsNullish(Prop(res, a)) THEN Throw(TypeError)
  ELSE Return(Prop(Prop(res, a), b))

\* ReturnStatement with publishPost and the comment mutations returning the
\* payload (`res.publishedpost`, `res.likedComment`, ...) instead of the
\* resource inside it.
ReturnStatementPayload(m, res) ==
  CASE m = "getPost" -> Member1(res, "post")
    [] m = "getPostPublication" -> Member2(res, "post", "publication")
    [] m = "getPostComments" -> Member2(res, "post", "comments")
    [] m = "getPostCommenters" -> Member2(res, "post", "commenters")
    [] m = "getPostLikers" -> Member2(res, "post", "likedBy")
    [] m = "getDraftPostQuery" -> Member1(res, "draft")
    [] m = "getScheduledPost" -> Member1(res, "post")
    [] m = "getFeedPosts" -> Member1(res, "feedPost")
    [] m = "publishPost" -> Member1(res, "publishedpost")
    [] m = "addPostToSeries" -> Member1(res, "series")
    [] m = "updatePost" -> Member1(res, "updatedPost")
    [] m = "removePost" -> Member1(res, "removedPost")
    [] m = "likePost" -> Member1(res, "likedPost")
    [] m = "likeComment" -> Member1(res, "likedComment")
    [] m = "likeReply" -> Member2(res, "likedReply", "reply")
    [] m = "addComment" -> Member1(res, "addedComment")
    [] m = "updateComment" -> Member1(res, "updatedComment")
    [] m = "removeComment" -> Member1(res, "removedComment")
    [] m = "addReply" -> Member2(res, "addedReply", "reply")
    [] m = "updateReply" -> Member2(res, "updatedReply", "reply")
    [] m = "removeReply" -> Member2(res, "removedReply", "reply")

\* The return statement of each method, applied to the awaited envelope.
ReturnStatement(m, res) ==
  CASE m = "getPost" -> Member1(res, "post")
    [] m = "getPostPublication" -> Member2(res, "post", "publication")
    [] m = "getPostComments" -> Member2(res, "post", "comments")
    [] m = "getPostCommenters" -> Member2(res, "post", "commenters")
    [] m = "getPostLikers" -> Member2(res, "post", "likedBy")
    [] m = "getDraftPostQuery" -> Member1(res, "draft")
    [] m = "getScheduledPost" -> Member1(res, "post")
    [] m = "getFeedPosts" -> Member1(res, "feedPost")
    [] m = "publishPost" -> Member2(res, "publishedpost", "post")
    [] m = "addPostToSeries" -> Member1(res, "series")
    [] m = "updatePost" -> Member1(res, "updatedPost")
    [] m = "removePost" -> Member1(res, "removedPost")
    [] m = "likePost" -> Member1(res, "likedPost")
    [] m = "likeComment" -> Member2(res, "likedComment", "comment")
    [] m = "likeReply" -> Member2(res, "likedReply", "reply")
    [] m = "addComment" -> Member2(res, "addedComment", "comment")
    [] m = "updateComment" -> Member2(res, "updatedComment", "comment")
    [] m = "removeComment" -> Member2(res, "removedComment", "comment")
    [] m = "addReply" -> Member2(res, "addedReply", "reply")
    [] m = "updateReply" -> Member2(res, "updatedReply", "reply")
    [] m = "removeReply" -> Member2(res, "removedReply", "reply")

\* Completion with a catch block that rethrows a new error in place of the
\* executor's.
CompletionWrapped(m, answer) ==
  IF answer.kind = "error"
  THEN Throw([kind |-> "error", name |-> "PostManagerError", n |-> answer.n])
  ELSE ReturnStatement(m, answer)

\* What the rest of the method body does once the awaited promise settles
\* with `answer`: a rejection is rethrown by `await`, a fulfilment reaches the
\* return statement.
Completion(m, answer) ==
  IF answer.kind = "error" THEN Throw(answer) ELSE ReturnStatement(m, answer)

\* ---------------------------------------------------------------- executor
\* Field names of the response types named in the makeRequest<...> calls.
TopFields ==
  {"post", "draft", "feedPost", "publishedpost", "series", "updatedPost",
   "removedPost", "likedPost", "likedComment", "likedReply", "addedComment",
   "updatedComment", "removedComment", "addedReply", "updatedReply",
   "removedReply"}

SubFields ==
  {"id", "publication", "comments", "commenters", "likedBy", "post", "series",
   "comment", "reply"}

\* What a top-level field of an envelope can hold.
FieldValues ==
  {Null} \cup Resources
    \cup {Obj(k, v) : k \in SubFields, v \in {Null} \cup Resources}

\* Every envelope the executor can resolve with: null, or an object with one
\* top-level field (every other field of it is absent).
Envelopes == {Null} \cup {Obj(t, v) : t \in TopFields, v \in FieldValues}

\* The top-level key of the response type of each method's makeRequest call.
ResponseKey(m) ==
  CASE m \in {"getPost", "getPostPublication", "getPostComments",
              "getPostCommenters", "getPostLikers", "getScheduledPost"} -> "post"
    [] m = "getDraftPostQuery" -> "draft"
    [] m = "getFeedPosts" -> "feedPost"
    [] m = "publishPost" -> "publishedpost"
    [] m = "addPostToSeries" -> "series"
    [] m = "updatePost" -> "updatedPost"
    [] m = "removePost" -> "removedPost"
    [] m = "likePost" -> "likedPost"
    [] m = "likeComment" -> "likedComment"
    [] m = "likeReply" -> "likedReply"
    [] m = "addComment" -> "addedComment"
    [] m = "updateComment" -> "updatedComment"
    [] m = "removeComment" -> "removedComment"
    [] m = "addReply" -> "addedReply"
    [] m = "updateReply" -> "updatedReply"
    [] m = "removeReply" -> "removedReply"

\* The field of the response type's value that carries the resource.
PayloadKey(m) ==
  CASE m \in {"getPost", "getScheduledPost", "getDraftPostQuery",
              "getFeedPosts"} -> "id"
    [] m = "getPostPublication" -> "publication"
    [] m = "getPostComments" -> "comments"
    [] m = "getPostCommenters" -> "commenters"
    [] m = "getPostLikers" -> "likedBy"
    [] m \in {"publishPost", "updatePost", "removePost", "likePost"} -> "post"
    [] m = "addPostToSeries" -> "series"
    [] m \in {"likeComment", "addComment", "updateComment", "removeComment"} ->
         "comment"
    [] m \in {"likeReply", "addReply", "updateReply", "removeReply"} -> "reply"

\* ---------------------------------------------------------------- state
\* manager: the fields the constructor sets (client, manager name).
\* inv[i]:  the invocation running in slot i: its position (pc), the method
\*          and the caller's arguments, the last request handed to the
\*          executor and the number of executor calls made, the executor's
\*          answer, and the invocation's outcome (result or error).
Constructed == [client |-> "client", managerName |-> "PostManager"]

Idle ==
  [pc |-> "idle", method |-> "none", args |-> <<>>, req |-> NoRequest,
   calls |-> 0, answer |-> NoVal, result |-> NoVal, error |-> NoVal]

Init ==
  /\ manager = Constructed
  /\ inv = [i \in Slots |-> Idle]

\* Awaited with `res` kept in a field of the manager instead of a local: an
\* invocation reads the answer another invocation stored last.
AwaitedShared(i) ==
  IF \E j \in Slots \ {i} : inv[j].pc \in {"answered", "returned", "threw"}
  THEN inv[CHOOSE j \in Slots \ {i} :
             inv[j].pc \in {"answered", "returned", "threw"}].answer
  ELSE inv[i].answer

\* The local `res` of invocation i: the value its await produced.
Awaited(i) == inv[i].answer

\* Invoke without the await: the body runs to its return statement on the
\* pending promise, whose fields are undefined, before the executor answers.
InvokeNoAwait(i, m, a) ==
  /\ inv[i].pc = "idle"
  /\ inv' = [inv EXCEPT ![i] =
       [pc |-> "returned", method |-> m, args |-> a, req |-> Request(m, a),
        calls |-> inv[i].calls + 1, answer |-> NoVal, result |-> Undefined,
        error |-> NoVal]]
  /\ UNCHANGED manager

\* Invoke that records the running operation in a field of the manager.
InvokeRecording(i, m, a) ==
  /\ inv[i].pc = "idle"
  /\ inv' = [inv EXCEPT ![i] =
       [pc |-> "awaiting", method |-> m, args |-> a, req |-> Request(m, a),
        calls |-> inv[i].calls + 1, answer |-> NoVal, result |-> NoVal,
        error |-> NoVal]]
  /\ manager' = [manager EXCEPT !.managerName = m]

\* A caller invokes method m with arguments a: the method body runs up to its
\* await, handing one request to makeRequest.
Invoke(i, m, a) ==
  /\ inv[i].pc = "idle"
  /\ inv' = [inv EXCEPT ![i] =
       [pc |-> "awaiting", method |-> m, args |-> a, req |-> Request(m, a),
        calls |-> inv[i].calls + 1, answer |-> NoVal, result |-> NoVal,
        error |-> NoVal]]
  /\ UNCHANGED manager

\* The executor fulfils the pending call of invocation i with envelope env.
ExecutorResolves(i, env) ==
  /\ inv[i].pc = "awaiting"
  /\ inv' = [inv EXCEPT ![i].pc = "answered", ![i].answer = env]
  /\ UNCHANGED manager

\* The executor rejects the pending call of invocation i with error err.
ExecutorRejects(i, err) ==
  /\ inv[i].pc = "awaiting"
  /\ inv' = [inv EXCEPT ![i].pc = "answered", ![i].answer = err]
  /\ UNCHANGED manager

\* Resume with a retry: a rejected call is issued again instead of rethrown.
ResumeRetrying(i) ==
  /\ inv[i].pc = "answered"
  /\ LET c == Completion(inv[i].method, Awaited(i))
     IN  IF inv[i].answer.kind = "error"
         THEN inv' = [inv EXCEPT ![i].pc = "awaiting", ![i].answer = NoVal,
                                 ![i].calls = 2]
         ELSE IF c.kind = "return"
         THEN inv' = [inv EXCEPT ![i].pc = "returned", ![i].result = c.val]
         ELSE inv' = [inv EXCEPT ![i].pc = "threw", ![i].error = c.val]
  /\ UNCHANGED manager

\* The method body resumes after its await and runs to its end.
Resume(i) ==
  /\ inv[i].pc = "answered"
  /\ LET c == Completion(inv[i].method, Awaited(i))
     IN  IF c.kind = "return"
         THEN inv' = [inv EXCEPT ![i].pc = "returned", ![i].result = c.val]
         ELSE inv' = [inv EXCEPT ![i].pc = "threw", ![i].error = c.val]
  /\ UNCHANGED manager

\* The caller takes the outcome of invocation i; the slot is free again.
Collect(i) ==
  /\ inv[i].pc \in {"returned", "threw"}
  /\ inv' = [inv EXCEPT ![i] = Idle]
  /\ UNCHANGED manager

\* ------------------------------------------------------- specifications
\* Spec: one invocation after another, over every method, every argument
\* tuple and every executor answer.
InvokeAny == \E m \in Methods : \E a \in ArgTuples(m) : Invoke(1, m, a)
ResolveAny == \E env \in Envelopes : ExecutorResolves(1, env)
RejectAny == \E err \in Errors : ExecutorRejects(1, err)
ResumeOne == Resume(1)
CollectOne == Collect(1)

Next == InvokeAny \/ ResolveAny \/ RejectAny \/ ResumeOne \/ CollectOne

Spec == Init /\ [][Next]_vars

\* SpecConc: up to MaxInflight invocations running at once, slot i holding
\* the i-th invocation issued; requests are answered and bodies resumed in any
\* order.  Invocation i passes the arguments of index i, and the executor
\* answers it with error 1 or with the envelope of its operation that carries
\* resource i, so that the invocations' data are pairwise distinguishable.
ArgIndex(i) == ((i - 1) % NumIds) + 1
ResIndex(i) == ((i - 1) % NumResources) + 1

ConcEnvelope(i) ==
  Obj(ResponseKey(inv[i].method),
      Obj(PayloadKey(inv[i].method), Res(ResIndex(i))))

InvokeConc ==
  \E i \in Slots : \E m \in Methods :
    /\ \A j \in Slots : j < i => inv[j].pc # "idle"
    /\ Invoke(i, m, DiagArgs(m, ArgIndex(i)))

ResolveConc ==
  \E i \in Slots :
    /\ inv[i].pc = "awaiting"
    /\ ExecutorResolves(i, ConcEnvelope(i))

RejectConc == \E i \in Slots : ExecutorRejects(i, ExecutorError(1))

ResumeConc == \E i \in Slots : Resume(i)

NextConc == InvokeConc \/ ResolveConc \/ RejectConc \/ ResumeConc

SpecConc == Init /\ [][NextConc]_vars

\* SpecFair: SpecConc with an executor that eventually answers every pending
\* call and a runtime that eventually resumes every settled await.
Answer(i) ==
  /\ inv[i].pc = "awaiting"
  /\ \/ ExecutorResolves(i, ConcEnvelope(i))
     \/ ExecutorRejects(i, ExecutorError(1))

SpecFair ==
  /\ Init /\ [][NextConc]_vars
  /\ \A i \in Slots : WF_vars(Answer(i)) /\ WF_vars(Resume(i))

\* ================================================================ claims
Done(i) == inv[i].pc \in {"returned", "threw"}
Fulfilled(i) == inv[i].answer.kind \notin {"none", "error"}

\* The field path the contract designates for each method's result.
DesignatedField(m) ==
  CASE m \in {"getPost", "getScheduledPost"} -> <<"post">>
    [] m = "getPostPublication" -> <<"post", "publication">>
    [] m = "getPostComments" -> <<"post", "comments">>
    [] m = "getPostCommenters" -> <<"post", "commenters">>
    [] m = "getPostLikers" -> <<"post", "likedBy">>
    [] m = "getDraftPostQuery" -> <<"draft">>
    [] m = "getFeedPosts" -> <<"feedPost">>
    [] m = "publishPost" -> <<"publishedpost", "post">>
    [] m = "likeComment" -> <<"likedComment", "comment">>
    [] m = "addComment" -> <<"addedComment", "comment">>
    [] m = "updateComment" -> <<"updatedComment", "comment">>
    [] m = "removeComment" -> <<"removedComment", "comment">>
    [] m = "likeReply" -> <<"likedReply", "reply">>
    [] m = "addReply" -> <<"addedReply", "reply">>
    [] m = "updateReply" -> <<"updatedReply", "reply">>
    [] m = "removeReply" -> <<"removedReply", "reply">>
    [] m = "updatePost" -> <<"updatedPost", "post">>
    [] m = "removePost" -> <<"removedPost", "post">>
    [] m = "likePost" -> <<"likedPost", "post">>
    [] m = "addPostToSeries" -> <<"series", "series">>

PostLevelMutations == {"updatePost", "removePost", "likePost", "addPostToSeries"}

\* The envelope has the object(s) the path p leads through.
HasField(env, p) ==
  /\ ~IsNullish(env)
  /\ Len(p) = 2 => ~IsNullish(Prop(env, p[1]))

\* The value of the field at path p of the envelope.
FieldAt(env, p) ==
  IF Len(p) = 1 THEN Prop(env, p[1]) ELSE Prop(Prop(env, p[1]), p[2])

VariableNames(m) ==
  CASE m \in {"getPost", "getPostPublication"} -> <<"postId">>
    [] m \in {"getPostComments", "getPostCommenters"} ->
         <<"postId", "first", "after", "sortBy">>
    [] m = "getPostLikers" -> <<"postId", "first", "after", "filter">>
    [] m = "getFeedPosts" -> <<"first", "after", "filter">>
    [] m \in {"getDraftPostQuery", "getScheduledPost"} -> <<"id">>
    [] m \in Mutations -> <<"input">>

\* C2: the request every invocation hands to the executor carries the
\* method's own name as operation name, the method's document constant, and
\* variables holding exactly the caller's arguments, each under the name the
\* contract gives its position (postId, first, after, sortBy or filter; id;
\* input).
C2_RequestCarriesArguments ==
  \A i \in Slots :
    inv[i].pc # "idle" =>
      LET m == inv[i].method
          a == inv[i].args
      IN  /\ inv[i].req.op = m
          /\ inv[i].req.doc = Document(m)
          /\ inv[i].req.doc \in ImportedDocuments
          /\ Len(VariableNames(m)) = Len(a)
          /\ inv[i].req.vars = {<<VariableNames(m)[j], a[j]>> : j \in 1..Len(a)}

C2_Witness ==
  \E i \in Slots :
    /\ inv[i].pc = "awaiting"
    /\ inv[i].method = "getPostComments"
    /\ inv[i].args[2].n # inv[i].args[3].n
    /\ <<"after", inv[i].args[3]>> \in inv[i].req.vars

\* C3: an invocation whose executor call was rejected never returns a
\* result, has made exactly one executor call, and fails with the very error
\* value the executor raised.
C3_ExecutorErrorPropagates ==
  \A i \in Slots :
    (inv[i].pc \in {"answered", "returned", "threw"}
       /\ inv[i].answer.kind = "error") =>
      /\ inv[i].pc # "returned"
      /\ inv[i].calls = 1
      /\ inv[i].result = NoVal
      /\ inv[i].pc = "threw" => inv[i].error = inv[i].answer

C3_Witness ==
  \E i \in Slots :
    /\ inv[i].pc = "threw"
    /\ inv[i].method = "publishPost"
    /\ inv[i].answer \in Errors
    /\ inv[i].error = inv[i].answer

\* C4 (as claimed): every error an invocation fails with is an error the
\* executor raised for that invocation.
C4_OnlyExecutorErrors ==
  \A i \in Slots :
    inv[i].pc = "threw" =>
      /\ inv[i].error \in Errors
      /\ inv[i].error = inv[i].answer

\* The request the contract expects of invocation i, from its own arguments.
OwnRequest(i) ==
  [op |-> inv[i].method, doc |-> Document(inv[i].method),
   vars |-> {<<VariableNames(inv[i].method)[j], inv[i].args[j]>> :
               j \in 1..Len(inv[i].args)}]

\* The outcome the contract expects of invocation i, from its own answer.
OutcomeIsOwn(i) ==
  /\ inv[i].pc = "returned" =>
       Completion(inv[i].method, inv[i].answer) = Return(inv[i].result)
  /\ inv[i].pc = "threw" =>
       Completion(inv[i].method, inv[i].answer) = Throw(inv[i].error)

\* C5: under every interleaving of concurrent invocations, a step of one
\* invocation leaves every other invocation untouched, each invocation's
\* request is built from its own arguments, and each invocation's outcome is
\* the one its own answer determines.
C5_InvocationsIndependent ==
  [][/\ \A i \in Slots :
          inv'[i] # inv[i] => \A j \in Slots \ {i} : inv'[j] = inv[j]
     /\ \A i \in Slots :
          inv'[i].pc # "idle" =>
            /\ inv'[i].req = OwnRequest(i)'
            /\ OutcomeIsOwn(i)']_vars

C5_Witness ==
  /\ inv[1].pc = "awaiting"
  /\ inv[2].pc = "returned"
  /\ inv[2].result = Res(ResIndex(2))
  /\ inv[1].method # inv[2].method
  /\ inv[1].args # inv[2].args

\* C6: every invocation has issued exactly one executor call, at every point
\* from its start to its completion, and an invocation that has completed has
\* the executor's answer to that call.
C6_OneCallThenAnswer ==
  \A i \in Slots :
    /\ inv[i].pc # "idle" => inv[i].calls = 1
    /\ inv[i].pc = "idle" => inv[i].calls = 0
    /\ Done(i) => inv[i].answer.kind # "none"
    /\ inv[i].pc = "awaiting" =>
         inv[i].answer = NoVal /\ inv[i].result = NoVal /\ inv[i].error = NoVal

C6_Witness ==
  \E i \in Slots :
    /\ inv[i].pc = "threw"
    /\ inv[i].method = "removePost"
    /\ inv[i].answer \in Errors
    /\ inv[i].calls = 1

\* C7 (as claimed): updatePost, removePost, likePost and addPostToSeries
\* return the resource carried inside the payload (payload.post,
\* payload.series), not the payload.
C7_ReturnsMutatedResource ==
  \A i \in Slots :
    (inv[i].pc = "returned" /\ inv[i].method \in PostLevelMutations
       /\ HasField(inv[i].answer, DesignatedField(inv[i].method))) =>
      inv[i].result = FieldAt(inv[i].answer, DesignatedField(inv[i].method))

\* C8: no step changes the manager's state (client and manager name, as
\* constructed) or the arguments a running invocation was called with, and
\* the variables of a request keep holding exactly those argument values.
C8_NoEffectOnManagerOrArguments ==
  [][/\ manager = Constructed
     /\ manager' = manager
     /\ \A i \in Slots :
          (inv[i].pc # "idle" /\ inv'[i].pc # "idle") =>
            /\ inv'[i].args = inv[i].args
            /\ inv'[i].method = inv[i].method
            /\ {kv[2] : kv \in inv'[i].req.vars} =
                 {inv[i].args[j] : j \in 1..Len(inv[i].args)}]_vars

C8_Witness ==
  \E i \in Slots :
    /\ inv[i].pc = "returned"
    /\ inv[i].method = "addComment"
    /\ inv[i].args = <<Val("input", 1)>>
    /\ manager = Constructed

\* Every imported document constant is the document of exactly one method.
ImportsUsedOnce ==
  /\ \A d \in ImportedDocuments :
       Cardinality({m \in Methods : Document(m) = d}) = 1
  /\ \A m \in Methods : Document(m) \in ImportedDocuments /\ OperationName(m) = m
  /\ Cardinality(Methods) = 21
  /\ Cardinality(ImportedDocuments) = 21

\* C9: requests of different methods never share an operation name or a
\* document, requests of the same method share both, every operation name is
\* the method's name, and every imported document constant is the document of
\* exactly one of the 21 methods.
C9_RequestIdentityInjective ==
  /\ ImportsUsedOnce
  /\ \A i, j \in Slots :
       (inv[i].pc # "idle" /\ inv[j].pc # "idle") =>
         /\ inv[i].req.op = inv[i].method
         /\ (inv[i].method = inv[j].method) <=> (inv[i].req.op = inv[j].req.op)
         /\ (inv[i].method = inv[j].method) <=> (inv[i].req.doc = inv[j].req.doc)

C9_Witness ==
  /\ inv[1].pc = "awaiting"
  /\ inv[2].pc = "awaiting"
  /\ inv[1].method = "getPost"
  /\ inv[2].method = "getScheduledPost"
  /\ inv[1].req.doc # inv[2].req.doc

Pending(i) == inv[i].pc \in {"awaiting", "answered"}

\* C10: when the executor eventually answers every call, every invocation
\* completes, so that eventually no invocation is pending; an invocation
\* leaves its await only by the executor's answer to its call; and whichever
\* other invocations are unanswered, an awaiting invocation can be answered
\* and an answered one can resume.
C10_CompletesIffAnswered ==
  /\ <>[](\A i \in Slots : ~Pending(i))
  /\ [][\A i \in Slots :
          (inv[i].pc = "awaiting" /\ inv'[i] # inv[i]) =>
            /\ inv'[i].pc = "answered"
            /\ inv'[i].answer.kind # "none"
            /\ inv'[i].calls = inv[i].calls]_vars
  /\ [](\A i \in Slots :
          /\ inv[i].pc = "awaiting" => ENABLED Answer(i)
          /\ inv[i].pc = "answered" => ENABLED Resume(i))

C10_Witness ==
  /\ inv[1].pc = "awaiting"
  /\ inv[2].pc = "threw"
  /\ inv[2].error = ExecutorError(1)

====
